---------------------------- MODULE Spec2Model ----------------------------
(***************************************************************************)
(* Rettiwt-API: the JSON tree search (helper/JsonUtils.findByFilter), the  *)
(* fetch / extract / deserialize pipeline and the authorization gate of    *)
(* FetcherService, modelled from the TypeScript sources.                   *)
(***************************************************************************)
EXTENDS Integers, Sequences, FiniteSets, TLC

VARIABLES
    filterCall,      \* one invocation of findByFilter: its arguments and its outcome
    extractCall,     \* one run of extractData followed by deserializeData
    config,          \* what the client was constructed with: apiKey, guestKey or none
    cred,            \* FetcherService.cred
    isAuthenticated, \* FetcherService.isAuthenticated
    calls,           \* the fetch / post invocations on the client, one per caller
    guestRequests,   \* guest-credential acquisitions started so far
    credWrites,      \* acquired guest credentials stored into cred so far
    sortCall,        \* one invocation of TweetService.search or TweetService.list
    instance,        \* LogService.instance, the static field
    logObjects,      \* the LogService objects constructed so far and their init
    logCalls         \* the getInstance invocations, one per caller

pureVars == <<filterCall, extractCall>>

clientVars == <<config, cred, isAuthenticated, calls, guestRequests, credWrites>>

serviceVars == <<sortCall, instance, logObjects, logCalls>>

vars == <<filterCall, extractCall, config, cred, isAuthenticated, calls,
          guestRequests, credWrites, sortCall, instance, logObjects, logCalls>>

(***************************************************************************)
(* Bounds                                                                  *)
(***************************************************************************)
\* longest sequence / largest mapping at the top of a searched tree
MaxLen == 2

(***************************************************************************)
(* JSON values as JavaScript sees them after JSON.parse.  A mapping keeps  *)
(* its fields in document order (a sequence of key/value pairs with        *)
(* distinct keys); Undefined is what a missing property reads as.          *)
(***************************************************************************)
Null == [t |-> "null"]
Undefined == [t |-> "undefined"]
Str(s) == [t |-> "str", s |-> s]
Num(n) == [t |-> "num", n |-> n]
Bool(b) == [t |-> "bool", b |-> b]
Arr(e) == [t |-> "arr", e |-> e]
Obj(f) == [t |-> "obj", f |-> f]
KV(k, v) == [k |-> k, v |-> v]

\* Array.isArray
IsArray(d) == d.t = "arr"

\* typeof d == 'object' : true of arrays, of mappings and of null
TypeofObject(d) == d.t \in {"arr", "obj", "null"}

\* integer-like property names, in ascending numeric order
IndexKeys == <<"0", "1", "2">>

IsIndexKey(k) == \E i \in 1..Len(IndexKeys) : IndexKeys[i] = k

RECURSIVE IndexEntries(_, _)
IndexEntries(f, i) ==
    IF i > Len(IndexKeys) THEN <<>>
    ELSE SelectSeq(f, LAMBDA p : p.k = IndexKeys[i]) \o IndexEntries(f, i + 1)

\* Object.entries / Object.keys order: integer-like keys ascending, then
\* the other keys in insertion (document) order
ObjectEntries(d) ==
    IndexEntries(d.f, 1) \o SelectSeq(d.f, LAMBDA p : ~IsIndexKey(p.k))

\* Object.keys(d).includes(k)
HasKey(d, k) == \E i \in 1..Len(d.f) : d.f[i].k = k

\* d[k] : the property value, undefined when the property is missing
Get(d, k) ==
    IF d.t = "obj" /\ HasKey(d, k)
    THEN (CHOOSE p \in {d.f[i] : i \in 1..Len(d.f)} : p.k = k).v
    ELSE Undefined

\* not-a-number
NaN == -1

\* ToNumber of a string, on the strings the model uses (every other string
\* of the model is not numeric)
StringToNumber(s) ==
    CASE s = "" -> 0
      [] s = "0" -> 0
      [] s = "1" -> 1
      [] s = "1.0" -> 1
      [] s = "123" -> 123
      [] OTHER -> NaN

\* Number.prototype.toString on the numbers the model uses
NumberToString(n) ==
    CASE n = 0 -> "0"
      [] n = 1 -> "1"
      [] n = 123 -> "123"
      [] OTHER -> "NaN"

\* String(x): the string form of a value
RECURSIVE ToStringJS(_)
RECURSIVE JoinJS(_, _)
JoinJS(e, i) ==
    IF i > Len(e) THEN ""
    ELSE (IF e[i].t \in {"null", "undefined"} THEN "" ELSE ToStringJS(e[i]))
         \o (IF i < Len(e) THEN "," ELSE "")
         \o JoinJS(e, i + 1)
ToStringJS(x) ==
    CASE x.t = "str" -> x.s
      [] x.t = "num" -> NumberToString(x.n)
      [] x.t = "bool" -> (IF x.b THEN "true" ELSE "false")
      [] x.t = "null" -> "null"
      [] x.t = "undefined" -> "undefined"
      [] x.t = "arr" -> JoinJS(x.e, 1)
      [] x.t = "obj" -> "[object Object]"

\* x == s for a string s (abstract equality): a string compares as a string,
\* a number with ToNumber(s), a boolean is first converted to a number,
\* null and undefined equal no string, an array or a mapping compares by its
\* string form
LooseEqualsString(x, s) ==
    CASE x.t = "str" -> x.s = s
      [] x.t = "num" -> StringToNumber(s) # NaN /\ x.n = StringToNumber(s)
      [] x.t = "bool" -> StringToNumber(s) # NaN
                         /\ (IF x.b THEN 1 ELSE 0) = StringToNumber(s)
      [] x.t \in {"null", "undefined"} -> FALSE
      [] OTHER -> ToStringJS(x) = s

\* truthiness of a value (Boolean(x))
Truthy(x) ==
    CASE x.t \in {"null", "undefined"} -> FALSE
      [] x.t = "str" -> x.s # ""
      [] x.t = "num" -> x.n # 0 /\ x.n # NaN
      [] x.t = "bool" -> x.b
      [] OTHER -> TRUE

(***************************************************************************)
(* findByFilter.  The outcome is either a returned list or a thrown        *)
(* TypeError: Object.keys(null) throws, and typeof null is 'object'.       *)
(***************************************************************************)
Returned(l) == [st |-> "returned", list |-> l]
Threw(e) == [st |-> "threw", err |-> e]
Pending == [st |-> "pending"]

RECURSIVE findByFilter(_, _, _)
RECURSIVE FilterEach(_, _, _, _, _)
\* res = res.concat(r_i) over the items from position i on; a throw in any
\* recursive call propagates
FilterEach(items, i, k, v, acc) ==
    IF i > Len(items) THEN Returned(acc)
    ELSE LET r == findByFilter(items[i], k, v)
         IN  IF r.st = "threw" THEN r
             ELSE FilterEach(items, i + 1, k, v, acc \o r.list)

findByFilter(d, k, v) ==
    IF IsArray(d) THEN FilterEach(d.e, 1, k, v, <<>>)
    ELSE IF TypeofObject(d) THEN
        IF d.t = "null" THEN Threw("TypeError")
        ELSE LET own == IF HasKey(d, k) /\ LooseEqualsString(Get(d, k), v)
                        THEN <<d>> ELSE <<>>
                 ents == ObjectEntries(d)
             IN  FilterEach([i \in 1..Len(ents) |-> ents[i].v], 1, k, v, own)
    ELSE Returned(<<>>)

(***************************************************************************)
(* FetcherService: the client, its credential and its invocations          *)
(***************************************************************************)
\* callers invoking fetch / post on the same client, concurrently
MaxCallers == 2

Callers == 1..MaxCallers

NoCredential == [kind |-> "undefined", n |-> 0]
UserCredential == [kind |-> "user", n |-> 0]
GuestKeyCredential == [kind |-> "guestKey", n |-> 0]
\* the credential returned by the n-th guest-credential acquisition
GuestCredential(n) == [kind |-> "guest", n |-> n]

IdleCall ==
    [pc |-> "idle", op |-> "none", type |-> "none", built |-> 0, guestCalls |-> 0,
     transportCalls |-> 0, failed |-> 0, handled |-> 0, handlerThrew |-> 0,
     outcome |-> Pending]

\* the client variables in the specifications that have no client
NoClient ==
    /\ config = "none"
    /\ cred = NoCredential
    /\ isAuthenticated = FALSE
    /\ calls = [c \in Callers |-> IdleCall]
    /\ guestRequests = 0
    /\ credWrites = 0

\* LogService.instance before the first getInstance: the declared static
\* field holds undefined
NoInstance == 0

IdleLogCall ==
    [pc |-> "idle", n |-> 0, obj |-> NoInstance, outcome |-> Pending,
     logged |-> Pending]

\* the service variables in the specifications that use no service
NoService ==
    /\ sortCall = [st |-> "none"]
    /\ instance = NoInstance
    /\ logObjects = <<>>
    /\ logCalls = [c \in Callers |-> IdleLogCall]

(***************************************************************************)
(* Inputs of the tree search                                               *)
(***************************************************************************)
SeqsUpTo(S, n) == UNION {[1..m -> S] : m \in 0..n}

DistinctKeys(f) == \A i, j \in 1..Len(f) : i # j => f[i].k # f[j].k

\* the key searched for, another key, and an integer-like key
TreeKeys == {"k", "a", "1"}

\* the targets searched for
FilterValues == {"v", "", "1.0", "123", "true"}

Leaf == Obj(<<KV("k", Str("v"))>>)

\* the subtrees a searched tree is built from
FilterNodes ==
    {Null, Str("v"), Num(1), Arr(<<>>), Obj(<<>>)}
    \cup {Obj(<<KV("k", x)>>) :
            x \in {Str("v"), Str(""), Num(0), Num(1), Num(123), Bool(TRUE), Null,
                   Arr(<<Str("v")>>)}}
    \cup {Obj(<<KV("a", Str("v"))>>),
          Obj(<<KV("k", Str("v")), KV("a", Leaf)>>),
          Obj(<<KV("a", Leaf)>>),
          Obj(<<KV("a", Obj(<<KV("k", Num(123))>>)), KV("k", Str("v"))>>),
          Arr(<<Leaf, Obj(<<KV("k", Bool(TRUE))>>)>>)}

FilterTrees ==
    FilterNodes
    \cup {Arr(e) : e \in SeqsUpTo(FilterNodes, MaxLen)}
    \cup {Obj(f) : f \in {g \in SeqsUpTo([k : TreeKeys, v : FilterNodes], MaxLen) :
                            DistinctKeys(g)}}

(***************************************************************************)
(* The tree search as a state machine: arguments drawn, then the call      *)
(***************************************************************************)
InitFilter ==
    /\ filterCall \in [data : FilterTrees, key : {"k"}, value : FilterValues,
                       res : {Pending}]
    /\ extractCall = [st |-> "none"]
    /\ NoClient
    /\ NoService

CallFindByFilter ==
    /\ filterCall.res.st = "pending"
    /\ filterCall' = [filterCall EXCEPT
                        !.res = findByFilter(filterCall.data, filterCall.key,
                                             filterCall.value)]
    /\ UNCHANGED <<extractCall, clientVars, serviceVars>>

NextFilter == CallFindByFilter

SpecFilter == InitFilter /\ [][NextFilter]_vars


(***************************************************************************)
(* What the tree search is specified to return, stated over the paths of   *)
(* the document: the matching mappings in document pre-order.              *)
(***************************************************************************)
\* the children of a node in document order
DocChildren(t) ==
    IF t.t = "arr" THEN t.e
    ELSE IF t.t = "obj" THEN [i \in 1..Len(t.f) |-> t.f[i].v]
    ELSE <<>>

RECURSIVE PathsOf(_)
PathsOf(t) ==
    {<<>>} \cup UNION {{<<i>> \o p : p \in PathsOf(DocChildren(t)[i])} :
                          i \in 1..Len(DocChildren(t))}

RECURSIVE NodeAt(_, _)
NodeAt(t, p) == IF p = <<>> THEN t ELSE NodeAt(DocChildren(t)[Head(p)], Tail(p))

\* p comes before q in pre-order: p is a proper prefix of q, or p branches
\* off to an earlier child
PreorderBefore(p, q) ==
    \/ Len(p) < Len(q) /\ SubSeq(q, 1, Len(p)) = p
    \/ \E i \in 1..Len(p) :
          /\ i <= Len(q)
          /\ SubSeq(p, 1, i - 1) = SubSeq(q, 1, i - 1)
          /\ p[i] < q[i]

RECURSIVE InPreorder(_)
InPreorder(S) ==
    IF S = {} THEN <<>>
    ELSE LET first == CHOOSE p \in S : \A q \in S \ {p} : PreorderBefore(p, q)
         IN  <<first>> \o InPreorder(S \ {first})

\* a mapping whose own field k has the string form v
StringFormMatch(n, k, v) ==
    n.t = "obj" /\ HasKey(n, k) /\ ToStringJS(Get(n, k)) = v

ExpectedMatches(d, k, v) ==
    LET ps == InPreorder({p \in PathsOf(d) : StringFormMatch(NodeAt(d, p), k, v)})
    IN  [i \in 1..Len(ps) |-> NodeAt(d, ps[i])]

FilterCalled == filterCall.res.st # "pending"

\* the trees without a null in them
NullFree(d) == \A p \in PathsOf(d) : NodeAt(d, p).t # "null"

\* C1: findByFilter returns exactly the mappings of the tree whose field k
\* has the string form v, each once, in document pre-order (a match before
\* the matches below it, earlier elements and earlier keys first).  Stated
\* here for the trees without null and a target that no number or boolean
\* of the tree equals loosely; null is the subject of C2, the comparison of C3.
C1_MatchesInDocumentOrder ==
    (FilterCalled /\ NullFree(filterCall.data) /\ filterCall.value = "v")
    => filterCall.res = Returned(ExpectedMatches(filterCall.data, filterCall.key,
                                                 filterCall.value))

\* the values C2 speaks of: null, an empty sequence, an empty mapping, a
\* mapping without the key
Matchless(n, k) ==
    \/ n.t = "null"
    \/ n.t = "arr" /\ n.e = <<>>
    \/ n.t = "obj" /\ ~HasKey(n, k)

\* C2: null, an empty sequence, an empty mapping and a mapping without the
\* key raise no error and add no match, at the top of the input and anywhere
\* inside the searched tree.
C2_MatchlessValuesAreHarmless ==
    (FilterCalled
       /\ \E p \in PathsOf(filterCall.data) :
             Matchless(NodeAt(filterCall.data, p), filterCall.key))
    => /\ filterCall.res.st = "returned"
       /\ \A i \in 1..Len(filterCall.res.list) :
             ~Matchless(filterCall.res.list[i], filterCall.key)

\* C3: a mapping matches (key, target) exactly when the string form of its
\* value at key equals target.
C3_MatchIsStringFormEquality ==
    (filterCall.res.st = "returned" /\ filterCall.data.t = "obj"
       /\ HasKey(filterCall.data, filterCall.key))
    => ((\E i \in 1..Len(filterCall.res.list) : filterCall.res.list[i] = filterCall.data)
        <=> ToStringJS(Get(filterCall.data, filterCall.key)) = filterCall.value)


(***************************************************************************)
(* FetcherService: extraction and deserialization                          *)
(***************************************************************************)
\* EResourceType: the kinds that are fetched and the kinds that are posted
FetchTypes ==
    {"TWEET_DETAILS", "USER_DETAILS", "USER_DETAILS_BY_ID", "TWEET_SEARCH",
     "USER_LIKES", "LIST_TWEETS", "USER_TWEETS", "USER_TWEETS_AND_REPLIES",
     "TWEET_FAVORITERS", "TWEET_RETWEETERS", "USER_FOLLOWERS", "USER_FOLLOWING"}

PostTypes == {"CREATE_TWEET", "FAVORITE_TWEET", "CREATE_RETWEET"}

EResourceType == FetchTypes \cup PostTypes

\* item.<outer>.<inner> : reading a property of undefined or null throws
RECURSIVE ProjectEach(_, _, _, _, _)
ProjectEach(items, i, outer, inner, acc) ==
    IF i > Len(items) THEN Returned(acc)
    ELSE LET o == Get(items[i], outer)
         IN  IF o.t \in {"undefined", "null"} THEN Threw("TypeError")
             ELSE ProjectEach(items, i + 1, outer, inner, Append(acc, Get(o, inner)))

\* findByFilter(data, '__typename', container).map(item => item.<outer>.result)
FindProjected(d, container, outer) ==
    LET found == findByFilter(d, "__typename", container)
    IN  IF found.st = "threw" THEN found
        ELSE ProjectEach(found.list, 1, outer, "result", <<>>)

\* a plausible slip: the timelines of posts searched for Tweet mappings
\* directly instead of for their TimelineTweet containers
RequiredEveryTweet(d, type) ==
    IF type \in {"TWEET_DETAILS", "TWEET_SEARCH", "USER_LIKES", "LIST_TWEETS",
                 "USER_TWEETS", "USER_TWEETS_AND_REPLIES"}
    THEN findByFilter(d, "__typename", "Tweet")
    ELSE IF type \in {"USER_DETAILS", "USER_DETAILS_BY_ID"}
         THEN findByFilter(d, "__typename", "User")
    ELSE IF type \in {"TWEET_FAVORITERS", "TWEET_RETWEETERS", "USER_FOLLOWERS",
                      "USER_FOLLOWING"}
         THEN FindProjected(d, "TimelineUser", "user_results")
    ELSE Returned(<<>>)

\* the raw fragments extractData selects for a resource type
Required(d, type) ==
    IF type = "TWEET_DETAILS" THEN findByFilter(d, "__typename", "Tweet")
    ELSE IF type \in {"USER_DETAILS", "USER_DETAILS_BY_ID"}
         THEN findByFilter(d, "__typename", "User")
    ELSE IF type \in {"TWEET_SEARCH", "USER_LIKES", "LIST_TWEETS", "USER_TWEETS",
                      "USER_TWEETS_AND_REPLIES"}
         THEN FindProjected(d, "TimelineTweet", "tweet_results")
    ELSE IF type \in {"TWEET_FAVORITERS", "TWEET_RETWEETERS", "USER_FOLLOWERS",
                      "USER_FOLLOWING"}
         THEN FindProjected(d, "TimelineUser", "user_results")
    ELSE Returned(<<>>)

\* a plausible slip: the last cursor marker instead of the first
NextCursorLast(d) ==
    LET found == findByFilter(d, "cursorType", "Bottom")
    IN  IF found.st = "threw" THEN found
        ELSE IF found.list = <<>> THEN [st |-> "returned", value |-> Undefined]
        ELSE [st |-> "returned", value |-> Get(found.list[Len(found.list)], "value")]

\* findByFilter(data, 'cursorType', 'Bottom')[0]?.value
NextCursor(d) ==
    LET found == findByFilter(d, "cursorType", "Bottom")
    IN  IF found.st = "threw" THEN found
        ELSE IF found.list = <<>> THEN [st |-> "returned", value |-> Undefined]
        ELSE [st |-> "returned", value |-> Get(found.list[1], "value")]

extractData(d, type) ==
    LET required == Required(d, type)
    IN  IF required.st = "threw" THEN required
        ELSE LET next == NextCursor(d)
             IN  IF next.st = "threw" THEN next
                 ELSE [st |-> "returned", required |-> required.list,
                       next |-> next.value]

\* models/public/Tweet and models/public/User: the entity built from a raw
\* fragment carries the fragment's stable identifier
Tweet(item) == [entity |-> "Tweet", id |-> Get(item, "rest_id")]
User(item) == [entity |-> "User", id |-> Get(item, "rest_id")]

\* models/public/CursoredData
CursoredData(list, next) == [list |-> list, next |-> next]

\* the shape checks of deserializeData
IsValidRawTweet(item) ==
    /\ Truthy(item)
    /\ LooseEqualsString(Get(item, "__typename"), "Tweet")
    /\ Truthy(Get(item, "rest_id"))

\* a plausible slip: the check of the id field left out
IsValidRawUserWithoutId(item) ==
    /\ Truthy(item)
    /\ LooseEqualsString(Get(item, "__typename"), "User")
    /\ Truthy(Get(item, "rest_id"))

IsValidRawUser(item) ==
    /\ Truthy(item)
    /\ LooseEqualsString(Get(item, "__typename"), "User")
    /\ Truthy(Get(item, "rest_id"))
    /\ Truthy(Get(item, "id"))

RECURSIVE DeserializeEach(_, _)
DeserializeEach(items, i) ==
    IF i > Len(items) THEN <<>>
    ELSE (IF IsValidRawTweet(items[i]) THEN <<Tweet(items[i])>>
          ELSE IF IsValidRawUser(items[i]) THEN <<User(items[i])>>
          ELSE <<>>)
         \o DeserializeEach(items, i + 1)

\* an undefined next takes the default parameter value ''
deserializeData(extractedData, next) ==
    CursoredData(DeserializeEach(extractedData, 1),
                 IF next.t = "undefined" THEN Str("") ELSE next)

(***************************************************************************)
(* Response bodies                                                         *)
(***************************************************************************)
\* most entries in the data list of a response body
MaxEntries == 2

RawTweet(id) == Obj(<<KV("__typename", Str("Tweet")), KV("rest_id", Str(id))>>)

RawUser(restId, id) ==
    Obj(<<KV("__typename", Str("User")), KV("rest_id", Str(restId)), KV("id", Str(id))>>)

QuotingTweet(id, quoted) ==
    Obj(<<KV("__typename", Str("Tweet")),
          KV("quoted_status_result", Obj(<<KV("result", quoted)>>)),
          KV("rest_id", Str(id))>>)

TimelineTweet(inner) ==
    Obj(<<KV("__typename", Str("TimelineTweet")),
          KV("tweet_results", Obj(<<KV("result", inner)>>))>>)

TimelineUser(inner) ==
    Obj(<<KV("__typename", Str("TimelineUser")),
          KV("user_results", Obj(<<KV("result", inner)>>))>>)

Cursor(type, value) == Obj(<<KV("cursorType", Str(type)), KV("value", Str(value))>>)

\* the fragments a response body is made of: well-formed and malformed
\* posts, accounts, timeline containers and cursors
Fragments ==
    {RawTweet("t1"),
     QuotingTweet("t2", RawTweet("t3")),
     Obj(<<KV("__typename", Str("Tweet"))>>),
     RawTweet(""),
     RawUser("u1", "VXNlcjox"),
     Obj(<<KV("__typename", Str("User")), KV("rest_id", Str("u2"))>>),
     RawUser("u3", ""),
     Obj(<<KV("__typename", Str("User")), KV("id", Str("VXNlcjo0"))>>),
     TimelineTweet(RawTweet("t4")),
     TimelineTweet(QuotingTweet("t5", RawTweet("t6"))),
     Obj(<<KV("__typename", Str("TimelineTweet"))>>),
     Obj(<<KV("__typename", Str("TimelineTweet")), KV("tweet_results", Obj(<<>>))>>),
     TimelineTweet(Obj(<<KV("__typename", Str("Tweet"))>>)),
     TimelineTweet(RawUser("u5", "VXNlcjo1")),
     TimelineUser(RawUser("u6", "VXNlcjo2")),
     Obj(<<KV("__typename", Str("TimelineUser"))>>),
     TimelineUser(Obj(<<KV("__typename", Str("User")), KV("rest_id", Str("u7"))>>)),
     Cursor("Bottom", "abc|"),
     Cursor("Bottom", "xyz"),
     Cursor("Top", "top"),
     Obj(<<KV("cursorType", Str("Bottom"))>>),
     Null}

Bodies == {Obj(<<KV("data", Arr(e))>>) : e \in SeqsUpTo(Fragments, MaxEntries)}

(***************************************************************************)
(* The pipeline on one response body: extractData, then deserializeData    *)
(***************************************************************************)
InitExtract ==
    /\ filterCall = [st |-> "none"]
    /\ NoClient
    /\ NoService
    /\ extractCall \in [st : {"start"}, data : Bodies, type : EResourceType]

ExtractData ==
    /\ extractCall.st = "start"
    /\ LET ex == extractData(extractCall.data, extractCall.type)
       IN  extractCall' =
             IF ex.st = "threw"
             THEN [st |-> "threw", data |-> extractCall.data,
                   type |-> extractCall.type, err |-> ex.err]
             ELSE [st |-> "extracted", data |-> extractCall.data,
                   type |-> extractCall.type, required |-> ex.required,
                   next |-> ex.next]
    /\ UNCHANGED <<filterCall, clientVars, serviceVars>>

DeserializeData ==
    /\ extractCall.st = "extracted"
    /\ extractCall' =
         [st |-> "deserialized", data |-> extractCall.data,
          type |-> extractCall.type, required |-> extractCall.required,
          result |-> deserializeData(extractCall.required, extractCall.next)]
    /\ UNCHANGED <<filterCall, clientVars, serviceVars>>

\* the tweet ids asked for
TweetIds == {"t1", "t2", "t3"}

\* TweetService.details(id), after its fetch of TWEET_DETAILS returned:
\* data.list[0], which is undefined for an empty list.  The id is the
\* argument of the call; nothing after the request reads it.
TweetDetails(id) ==
    /\ extractCall.st = "deserialized"
    /\ extractCall.type = "TWEET_DETAILS"
    /\ extractCall' =
         [st |-> "details", data |-> extractCall.data, type |-> extractCall.type,
          id |-> id,
          tweet |-> IF extractCall.result.list = <<>> THEN Undefined
                    ELSE extractCall.result.list[1]]
    /\ UNCHANGED <<filterCall, clientVars, serviceVars>>

NextExtract == ExtractData \/ DeserializeData \/ \E id \in TweetIds : TweetDetails(id)

SpecExtract == InitExtract /\ [][NextExtract]_vars


(***************************************************************************)
(* Properties of extraction and deserialization                            *)
(***************************************************************************)
SingleEntityTypes == {"TWEET_DETAILS", "USER_DETAILS", "USER_DETAILS_BY_ID"}

CollectionTypes == FetchTypes \ SingleEntityTypes

\* the paths of the mappings with cursorType = "Bottom", in pre-order
BottomCursorPaths(d) ==
    InPreorder({p \in PathsOf(d) : /\ NodeAt(d, p).t = "obj"
                                   /\ Get(NodeAt(d, p), "cursorType") = Str("Bottom")})

\* C7: for a collection kind the cursor of the result is the empty string
\* when the tree holds no mapping with cursorType = "Bottom", and otherwise
\* the value field of the first such mapping in traversal order (the empty
\* string when that first mapping has no value field).
C7_CursorIsFirstBottomValue ==
    (extractCall.st = "deserialized" /\ extractCall.type \in CollectionTypes)
    => LET ps == BottomCursorPaths(extractCall.data)
       IN  IF ps = <<>> THEN extractCall.result.next = Str("")
           ELSE LET first == NodeAt(extractCall.data, ps[1])
                IN  IF HasKey(first, "value")
                    THEN extractCall.result.next = Get(first, "value")
                    ELSE extractCall.result.next = Str("")

\* two Bottom cursors with different values: the first one's value is returned
C7_Witness ==
    /\ extractCall.st = "deserialized"
    /\ extractCall.type = "USER_FOLLOWERS"
    /\ LET ps == BottomCursorPaths(extractCall.data)
       IN  /\ Len(ps) = 2
           /\ Get(NodeAt(extractCall.data, ps[1]), "value") = Str("xyz")
           /\ Get(NodeAt(extractCall.data, ps[2]), "value") = Str("abc|")
    /\ extractCall.result.next = Str("xyz")

\* a fragment has a field and the field is not the empty string
NonEmptyField(item, k) ==
    item.t = "obj" /\ HasKey(item, k) /\ Get(item, k) # Str("")

PresentField(item, k) == item.t = "obj" /\ HasKey(item, k)

HasTypename(item, name) ==
    item.t = "obj" /\ HasKey(item, "__typename") /\ Get(item, "__typename") = Str(name)

\* qualifying as the claim words it: an account needs rest_id and id present
QualifiesAsPost(item) == HasTypename(item, "Tweet") /\ NonEmptyField(item, "rest_id")

QualifiesAsAccountIfPresent(item) ==
    HasTypename(item, "User") /\ PresentField(item, "rest_id") /\ PresentField(item, "id")

\* qualifying as amended: an account needs rest_id and id non-empty
QualifiesAsAccount(item) ==
    HasTypename(item, "User") /\ NonEmptyField(item, "rest_id") /\ NonEmptyField(item, "id")

\* the entity of the claim for a qualifying fragment
EntityOf(item) ==
    [entity |-> IF HasTypename(item, "Tweet") THEN "Tweet" ELSE "User",
     id |-> Get(item, "rest_id")]

\* one entity per qualifying fragment, in input order
EntitiesWhere(items, Q(_)) ==
    LET kept == SelectSeq(items, Q)
    IN  [i \in 1..Len(kept) |-> EntityOf(kept[i])]

DroppedWhere(items, Q(_)) == Cardinality({i \in 1..Len(items) : ~Q(items[i])})

\* C8 as stated: one entity per qualifying fragment in input order, an account
\* qualifying when its rest_id and id are present.
C8_OneEntityPerQualifyingFragment_Original ==
    extractCall.st = "deserialized"
    => extractCall.result.list =
         EntitiesWhere(extractCall.required,
                       LAMBDA x : QualifiesAsPost(x) \/ QualifiesAsAccountIfPresent(x))

\* C8 (amended): deserializeData returns, in input order, exactly one entity
\* for each fragment that qualifies and nothing for any other; a Post needs
\* __typename "Tweet" and a non-empty rest_id, an Account __typename "User"
\* and a non-empty rest_id and a non-empty id; each other fragment shortens
\* the output by exactly one.
C8_OneEntityPerQualifyingFragment ==
    extractCall.st = "deserialized"
    => LET Q(x) == QualifiesAsPost(x) \/ QualifiesAsAccount(x)
       IN  /\ extractCall.result.list = EntitiesWhere(extractCall.required, Q)
           /\ Len(extractCall.result.list) =
                Len(extractCall.required) - DroppedWhere(extractCall.required, Q)

\* a User fragment without id is dropped, its well-formed sibling is returned
C8_Witness ==
    /\ extractCall.st = "deserialized"
    /\ extractCall.type = "USER_DETAILS"
    /\ Len(extractCall.required) = 2
    /\ ~PresentField(extractCall.required[1], "id")
    /\ extractCall.result.list = <<[entity |-> "User", id |-> Str("u1")]>>

\* C9: a malformed fragment never makes the pipeline fail: for every response
\* tree (here: every tree without null), also one whose TimelineTweet or
\* TimelineUser container lacks its tweet_results / user_results field,
\* extraction and deserialization complete with a result.
C9_MalformedFragmentNeverFails ==
    NullFree(extractCall.data) => extractCall.st # "threw"

\* C10: for the single-entity kinds the cursor of the result is the empty
\* string, also when the tree holds a mapping with cursorType = "Bottom".
C10_SingleEntityCursorIsEmpty ==
    (extractCall.st = "deserialized" /\ extractCall.type \in SingleEntityTypes)
    => extractCall.result.next = Str("")


\* the kinds whose result is a timeline of posts
PostTimelineTypes ==
    {"TWEET_SEARCH", "USER_LIKES", "LIST_TWEETS", "USER_TWEETS",
     "USER_TWEETS_AND_REPLIES"}

\* the TimelineTweet containers of a tree, in pre-order
ContainerPaths(d) ==
    InPreorder({p \in PathsOf(d) : HasTypename(NodeAt(d, p), "TimelineTweet")})

\* the inner tweet_results.result of a container
InnerResult(container) == Get(Get(container, "tweet_results"), "result")

\* the posts of the well-formed containers, in the order of the containers
ExpectedTimelinePosts(d) ==
    LET ps == ContainerPaths(d)
        inner == [i \in 1..Len(ps) |-> InnerResult(NodeAt(d, ps[i]))]
    IN  EntitiesWhere(inner, QualifiesAsPost)

\* C11: for a timeline-of-posts kind the result holds one Post per
\* TimelineTweet container whose inner tweet_results.result is a well-formed
\* Tweet, taken from that inner result, in the order of the containers, and
\* next is the value of the Bottom cursor; Tweet mappings that are not the
\* projection of a container (a quoted post inside a post) add no entity.
C11_TimelinePostsAreProjections ==
    (extractCall.st = "deserialized" /\ extractCall.type \in PostTimelineTypes)
    => LET posts == SelectSeq(extractCall.result.list, LAMBDA e : e.entity = "Tweet")
           cs == BottomCursorPaths(extractCall.data)
       IN  /\ posts = ExpectedTimelinePosts(extractCall.data)
           /\ Len(extractCall.result.list) <= Len(ContainerPaths(extractCall.data))
           /\ (cs # <<>> /\ HasKey(NodeAt(extractCall.data, cs[1]), "value"))
              => extractCall.result.next = Get(NodeAt(extractCall.data, cs[1]), "value")

\* a container wrapping a post that quotes another post, and a cursor: only
\* the wrapped post is returned, with the cursor
C11_Witness ==
    /\ extractCall.st = "deserialized"
    /\ extractCall.type = "USER_TWEETS"
    /\ extractCall.data =
         Obj(<<KV("data", Arr(<<TimelineTweet(QuotingTweet("t5", RawTweet("t6"))),
                                Cursor("Bottom", "abc|")>>))>>)
    /\ extractCall.result = CursoredData(<<[entity |-> "Tweet", id |-> Str("t5")]>>,
                                         Str("abc|"))


(***************************************************************************)
(* FetcherService: constructor, checkAuthorization, request, fetch, post   *)
(***************************************************************************)
\* the response bodies the transport delivers to a client
ResponseBodies ==
    {Obj(<<KV("data", Arr(<<RawTweet("t1"), Cursor("Bottom", "abc|")>>))>>),
     Obj(<<KV("data", Arr(<<TimelineTweet(RawTweet("t4")),
                            Obj(<<KV("__typename", Str("TimelineTweet"))>>)>>))>>)}

\* the constructor: cred from the API key, else from the guest key, else
\* undefined; isAuthenticated exactly when an API key was given
Init ==
    /\ filterCall = [st |-> "none"]
    /\ NoService
    /\ extractCall = [st |-> "none"]
    /\ config \in {"apiKey", "guestKey", "none"}
    /\ cred = (IF config = "apiKey" THEN UserCredential
               ELSE IF config = "guestKey" THEN GuestKeyCredential
               ELSE NoCredential)
    /\ isAuthenticated = (config = "apiKey")
    /\ calls = [c \in Callers |-> IdleCall]
    /\ guestRequests = 0
    /\ credWrites = 0

\* a plausible slip: one more kind let through for guests
checkAuthorizationLax(resourceType, authenticated) ==
    IF /\ resourceType # "TWEET_DETAILS"
       /\ resourceType # "USER_DETAILS"
       /\ resourceType # "USER_TWEETS"
       /\ resourceType # "TWEET_SEARCH"
       /\ authenticated = FALSE
    THEN Threw("RESOURCE_NOT_ALLOWED")
    ELSE [st |-> "passed"]

checkAuthorization(resourceType, authenticated) ==
    IF /\ resourceType # "TWEET_DETAILS"
       /\ resourceType # "USER_DETAILS"
       /\ resourceType # "USER_TWEETS"
       /\ authenticated = FALSE
    THEN Threw("RESOURCE_NOT_ALLOWED")
    ELSE [st |-> "passed"]

\* what fetch makes of a response body: extractData, then deserializeData
fetchResult(body, resourceType) ==
    LET ex == extractData(body, resourceType)
    IN  IF ex.st = "threw" THEN Threw(ex.err)
        ELSE [st |-> "returned", value |-> deserializeData(ex.required, ex.next)]

\* fetch / post up to their first suspension: the Request is built, request()
\* checks the authorization, then either starts the guest-credential
\* acquisition (cred is undefined) or issues the transport call
Invoke(c, op, resourceType) ==
    /\ calls[c].pc = "idle"
    /\ LET started == [calls[c] EXCEPT !.op = op, !.type = resourceType, !.built = 1]
           auth == checkAuthorization(resourceType, isAuthenticated)
       IN  IF auth.st = "threw"
           THEN /\ calls' = [calls EXCEPT ![c] =
                               [started EXCEPT !.pc = "done", !.outcome = auth]]
                /\ UNCHANGED guestRequests
           ELSE IF cred = NoCredential
           THEN /\ calls' = [calls EXCEPT ![c] =
                               [started EXCEPT !.pc = "awaitGuest", !.guestCalls = 1]]
                /\ guestRequests' = guestRequests + 1
           ELSE /\ calls' = [calls EXCEPT ![c] =
                               [started EXCEPT !.pc = "awaitAxios",
                                               !.transportCalls = 1]]
                /\ UNCHANGED guestRequests
    /\ UNCHANGED <<pureVars, serviceVars, config, cred, isAuthenticated, credWrites>>

\* a plausible slip: holding a guest credential counted as being authenticated
GuestCredentialArrivesAuthenticated(c) ==
    /\ calls[c].pc = "awaitGuest"
    /\ cred' = GuestCredential(credWrites + 1)
    /\ credWrites' = credWrites + 1
    /\ isAuthenticated' = TRUE
    /\ calls' = [calls EXCEPT ![c].pc = "awaitAxios",
                              ![c].transportCalls = calls[c].transportCalls + 1]
    /\ UNCHANGED <<pureVars, serviceVars, config, guestRequests>>

\* the guest credential arrives: it is stored into cred, whatever cred holds
\* by now, and the transport call is issued
GuestCredentialArrives(c) ==
    /\ calls[c].pc = "awaitGuest"
    /\ cred' = GuestCredential(credWrites + 1)
    /\ credWrites' = credWrites + 1
    /\ calls' = [calls EXCEPT ![c].pc = "awaitAxios",
                              ![c].transportCalls = calls[c].transportCalls + 1]
    /\ UNCHANGED <<pureVars, serviceVars, config, isAuthenticated, guestRequests>>

\* a plausible slip: the failure of the acquisition is swallowed and the
\* transport call is issued without a credential
GuestCredentialFailsIgnored(c) ==
    /\ calls[c].pc = "awaitGuest"
    /\ calls' = [calls EXCEPT ![c].pc = "awaitAxios",
                              ![c].transportCalls = calls[c].transportCalls + 1]
    /\ UNCHANGED <<pureVars, serviceVars, config, cred, isAuthenticated, guestRequests, credWrites>>

\* the guest-credential acquisition fails: request() rejects with that error
GuestCredentialFails(c) ==
    /\ calls[c].pc = "awaitGuest"
    /\ calls' = [calls EXCEPT ![c].pc = "done",
                              ![c].outcome = Threw("GuestCredentialError")]
    /\ UNCHANGED <<pureVars, serviceVars, config, cred, isAuthenticated, guestRequests, credWrites>>

\* the transport call completes: fetch extracts and deserializes the body,
\* post returns true
TransportResponds(c, body) ==
    /\ calls[c].pc = "awaitAxios"
    /\ calls' = [calls EXCEPT
                   ![c].pc = "done",
                   ![c].outcome = IF calls[c].op = "fetch"
                                  THEN fetchResult(body, calls[c].type)
                                  ELSE [st |-> "returned", value |-> Bool(TRUE)]]
    /\ UNCHANGED <<pureVars, serviceVars, config, cred, isAuthenticated, guestRequests, credWrites>>

\* most transport calls one invocation could issue if it retried
MaxAttempts == 2

\* a plausible slip: the failure swallowed, post answering false and fetch an
\* empty result
TransportFailsSwallowed(c, handlerThrows) ==
    /\ calls[c].pc = "awaitAxios"
    /\ calls' = [calls EXCEPT
                   ![c].pc = "done",
                   ![c].failed = 1,
                   ![c].handled = 1,
                   ![c].handlerThrew = IF handlerThrows THEN 1 ELSE 0,
                   ![c].outcome =
                       IF handlerThrows THEN Threw("HandlerError")
                       ELSE [st |-> "returned",
                             value |-> IF calls[c].op = "post" THEN Bool(FALSE)
                                       ELSE CursoredData(<<>>, Str(""))]]
    /\ UNCHANGED <<pureVars, serviceVars, config, cred, isAuthenticated, guestRequests, credWrites>>

\* a plausible slip: a new error thrown in place of the one that was caught
TransportFailsWrapped(c, handlerThrows) ==
    /\ calls[c].pc = "awaitAxios"
    /\ calls' = [calls EXCEPT
                   ![c].pc = "done",
                   ![c].failed = 1,
                   ![c].handled = 1,
                   ![c].handlerThrew = IF handlerThrows THEN 1 ELSE 0,
                   ![c].outcome = IF handlerThrows THEN Threw("HandlerError")
                                  ELSE Threw("WrappedError")]
    /\ UNCHANGED <<pureVars, serviceVars, config, cred, isAuthenticated, guestRequests, credWrites>>

\* a plausible slip: the transport call issued again after a failure
TransportFailsRetried(c, handlerThrows) ==
    /\ calls[c].pc = "awaitAxios"
    /\ calls' = [calls EXCEPT
                   ![c].pc = IF calls[c].transportCalls < MaxAttempts
                             THEN "awaitAxios" ELSE "done",
                   ![c].transportCalls =
                       IF calls[c].transportCalls < MaxAttempts
                       THEN calls[c].transportCalls + 1 ELSE calls[c].transportCalls,
                   ![c].failed = 1,
                   ![c].handled = 1,
                   ![c].handlerThrew = IF handlerThrows THEN 1 ELSE 0,
                   ![c].outcome =
                       IF calls[c].transportCalls < MaxAttempts THEN Pending
                       ELSE IF handlerThrows THEN Threw("HandlerError")
                       ELSE Threw("TransportError")]
    /\ UNCHANGED <<pureVars, serviceVars, config, cred, isAuthenticated, guestRequests, credWrites>>

\* the transport call fails: the error handler is called with the error; if
\* the handler throws, its error leaves request(), otherwise the error that
\* was caught is rethrown
TransportFails(c, handlerThrows) ==
    /\ calls[c].pc = "awaitAxios"
    /\ calls' = [calls EXCEPT
                   ![c].pc = "done",
                   ![c].failed = 1,
                   ![c].handled = 1,
                   ![c].handlerThrew = IF handlerThrows THEN 1 ELSE 0,
                   ![c].outcome = IF handlerThrows THEN Threw("HandlerError")
                                  ELSE Threw("TransportError")]
    /\ UNCHANGED <<pureVars, serviceVars, config, cred, isAuthenticated, guestRequests, credWrites>>

Next ==
    \/ \E c \in Callers, t \in FetchTypes : Invoke(c, "fetch", t)
    \/ \E c \in Callers, t \in PostTypes : Invoke(c, "post", t)
    \/ \E c \in Callers : GuestCredentialArrives(c)
    \/ \E c \in Callers : GuestCredentialFails(c)
    \/ \E c \in Callers, body \in ResponseBodies : TransportResponds(c, body)
    \/ \E c \in Callers, handlerThrows \in BOOLEAN : TransportFails(c, handlerThrows)

Spec == Init /\ [][Next]_vars

(***************************************************************************)
(* Properties of the authorization gate and of the lazy credential         *)
(***************************************************************************)
\* the guest-allowed kinds as specified: the single-entity lookups and the
\* user's primary timeline
GuestAllowedTypes == SingleEntityTypes \cup {"USER_TWEETS"}

UserOnlyTypes == EResourceType \ GuestAllowedTypes

AuthorizationError == Threw("RESOURCE_NOT_ALLOWED")

\* C4: a Guest client invoking fetch or post for a User-only kind fails with
\* the authorization error, and that invocation has made no network call: no
\* transport request and no guest-credential acquisition.
C4_GuestDeniedBeforeAnyNetworkCall ==
    \A c \in Callers :
        (calls[c].pc # "idle" /\ ~isAuthenticated /\ calls[c].type \in UserOnlyTypes)
        => /\ calls[c].pc = "done"
           /\ calls[c].outcome = AuthorizationError
           /\ calls[c].transportCalls = 0
           /\ calls[c].guestCalls = 0

\* a client built without credentials was denied a search, nothing was sent
C4_Witness ==
    /\ config = "none"
    /\ \E c \in Callers :
          /\ calls[c].type = "TWEET_SEARCH"
          /\ calls[c].outcome = AuthorizationError
    /\ guestRequests = 0
    /\ \A c \in Callers : calls[c].transportCalls = 0

\* C5: the authorization check fails exactly when the client is a Guest and
\* the kind is outside the guest-allowed set (single-entity lookups and the
\* primary timeline); for a User it never fails.
C5_DeniedIffGuestAndNotGuestAllowed ==
    \A c \in Callers :
        calls[c].pc # "idle"
        => (calls[c].outcome = AuthorizationError
            <=> (~isAuthenticated /\ calls[c].type \notin GuestAllowedTypes))

\* guest-credential acquisitions that were started and have not failed
LiveAcquisitions ==
    {c \in Callers : calls[c].guestCalls = 1
                     /\ calls[c].outcome # Threw("GuestCredentialError")}

\* C6: for a client constructed without credentials, under any interleaving
\* of concurrent invocations the guest-credential acquisition is started at
\* most once and the credential is assigned at most once.
C6_GuestCredentialAcquiredOnce ==
    config = "none" => (Cardinality(LiveAcquisitions) <= 1 /\ credWrites <= 1)


(***************************************************************************)
(* Properties of post, of transport failures and of the order of the steps *)
(***************************************************************************)
TransportErrors == {Threw("TransportError"), Threw("HandlerError")}

\* C12 as stated: when the authorization passes, post returns true whenever
\* the transport call completes, whatever the body, and when the transport
\* call fails it returns no boolean: the transport error propagates.
C12_PostTrueElseTransportError ==
    \A c \in Callers :
        (calls[c].op = "post" /\ calls[c].pc = "done" /\ calls[c].transportCalls > 0)
        => IF calls[c].failed = 0
           THEN calls[c].outcome = [st |-> "returned", value |-> Bool(TRUE)]
           ELSE calls[c].outcome = Threw("TransportError")

\* C12 (amended): when the authorization passes, post returns true whenever
\* the transport call completes, whatever the body, and when the transport
\* call fails it returns no boolean: an error propagates, the transport
\* error when the error handler returns and the handler's error when the
\* handler throws.
C12_PostTrueUnlessTransportFails ==
    \A c \in Callers :
        (calls[c].op = "post" /\ calls[c].pc = "done" /\ calls[c].transportCalls > 0)
        => IF calls[c].failed = 0
           THEN calls[c].outcome = [st |-> "returned", value |-> Bool(TRUE)]
           ELSE /\ calls[c].outcome.st = "threw"
                /\ calls[c].outcome \in TransportErrors

\* one post answered true, another one failed in the transport and the
\* handler threw
C12_Witness ==
    /\ \E c \in Callers :
          /\ calls[c].op = "post"
          /\ calls[c].outcome = [st |-> "returned", value |-> Bool(TRUE)]
    /\ \E c \in Callers :
          /\ calls[c].op = "post"
          /\ calls[c].failed = 1
          /\ calls[c].handlerThrew = 1
          /\ calls[c].outcome = Threw("HandlerError")

\* C13 as stated: when the transport call fails, the error reaching the
\* caller is the original transport error, whatever the handler does.
C13_OriginalErrorWhateverHandler ==
    \A c \in Callers :
        calls[c].failed = 1 => calls[c].outcome = Threw("TransportError")

\* C13 (amended): when the transport call fails the handler is invoked with
\* the error; if the handler returns, the original transport error reaches
\* the caller, and if the handler throws, the handler's error does; in both
\* cases no result, not even a partial one, is returned.
C13_OriginalErrorUnlessHandlerThrows ==
    \A c \in Callers :
        calls[c].failed = 1
        => /\ calls[c].pc = "done"
           /\ calls[c].handled = 1
           /\ calls[c].handlerThrew = 0 => calls[c].outcome = Threw("TransportError")
           /\ calls[c].handlerThrew = 1 => calls[c].outcome = Threw("HandlerError")

\* a fetch failed in the transport, the handler returned, the error came out
C13_Witness ==
    \E c \in Callers :
        /\ calls[c].op = "fetch"
        /\ calls[c].failed = 1
        /\ calls[c].handled = 1
        /\ calls[c].handlerThrew = 0
        /\ calls[c].outcome = Threw("TransportError")

\* C14: an invocation issues at most one transport call; once its transport
\* call has failed it issues no other and has ended in error.
C14_NoRetry ==
    \A c \in Callers :
        /\ calls[c].transportCalls <= 1
        /\ calls[c].failed = 1
           => /\ calls[c].pc = "done"
              /\ calls[c].outcome.st = "threw"
              /\ calls[c].transportCalls = 1

\* both invocations failed in the transport, each after one call
C14_Witness ==
    \A c \in Callers :
        /\ calls[c].failed = 1
        /\ calls[c].transportCalls = 1
        /\ calls[c].pc = "done"

\* the kinds extractData has a branch for
ExtractorTypes == FetchTypes

\* C15: a kind without an entry in the extractor's table is a fatal error:
\* extracting for it (a post kind such as CREATE_TWEET) fails instead of
\* returning a result.
C15_UnknownKindIsFatal ==
    (extractCall.st # "start" /\ extractCall.type \notin ExtractorTypes)
    => extractCall.st = "threw"

\* the resources the README grants to guest authentication
ReadmeGuestTypes ==
    {"TWEET_DETAILS", "USER_DETAILS", "USER_TWEETS", "USER_TWEETS_AND_REPLIES"}

\* C16: a client using guest authentication (no API key) is permitted Tweet
\* Details, User Details, User Timeline and User Replies: for none of them
\* does the authorization check fail.
C16_ReadmeGuestResourcesPermitted ==
    \A c \in Callers :
        (config # "apiKey" /\ calls[c].type \in ReadmeGuestTypes)
        => calls[c].outcome # AuthorizationError

\* the well-formed Tweet mappings of a tree with a given rest_id
HasTweetWithId(d, id) ==
    \E p \in PathsOf(d) :
        QualifiesAsPost(NodeAt(d, p)) /\ Get(NodeAt(d, p), "rest_id") = Str(id)

\* C17: details(id) returns the tweet with the given id whenever the tree
\* holds a well-formed Tweet with rest_id = id, also when other Tweet
\* mappings come earlier in traversal order.
C17_DetailsReturnsRequestedTweet ==
    (extractCall.st = "details" /\ HasTweetWithId(extractCall.data, extractCall.id))
    => extractCall.tweet = [entity |-> "Tweet", id |-> Str(extractCall.id)]

\* C18: the credential level is fixed at construction: isAuthenticated is in
\* every state what the constructor made it, whatever was fetched, posted or
\* acquired, and a client built without an API key is denied every User-only
\* kind in every state.
C18_CredentialLevelFixed ==
    /\ isAuthenticated = (config = "apiKey")
    /\ \A c \in Callers :
          (config # "apiKey" /\ calls[c].pc # "idle" /\ calls[c].type \in UserOnlyTypes)
          => calls[c].outcome = AuthorizationError

\* the guest credential was acquired and is in use, the client is still a
\* Guest and a search is denied
C18_Witness ==
    /\ config = "none"
    /\ cred.kind = "guest"
    /\ ~isAuthenticated
    /\ \E c \in Callers : calls[c].outcome.st = "returned"
    /\ \E c \in Callers :
          calls[c].type = "TWEET_SEARCH" /\ calls[c].outcome = AuthorizationError

\* C19: the authorization check comes before the request descriptor is
\* built: for a Guest and a User-only kind the call fails with the
\* authorization error and the request builder was never invoked.
C19_DeniedBeforeRequestIsBuilt ==
    \A c \in Callers :
        (~isAuthenticated /\ calls[c].pc # "idle" /\ calls[c].type \in UserOnlyTypes)
        => /\ calls[c].outcome = AuthorizationError
           /\ calls[c].built = 0

\* C20: when the guest-credential acquisition of an invocation fails, the
\* invocation ends with that error, it has issued no transport call and the
\* step leaves cred as it was; and an invocation that passes the
\* authorization while cred is unset starts an acquisition (again).
C20_FailedAcquisitionLeavesCredUnset ==
    [][\A c \in Callers :
          /\ (calls[c].pc = "awaitGuest" /\ calls'[c].pc # "awaitGuest"
                /\ cred' = cred)
             => /\ calls'[c].pc = "done"
                /\ calls'[c].outcome = Threw("GuestCredentialError")
                /\ calls'[c].transportCalls = 0
                /\ credWrites' = credWrites
          /\ (calls[c].pc = "awaitGuest" /\ calls'[c].pc = "awaitAxios")
             => cred' # cred
          /\ (calls[c].pc = "idle" /\ calls'[c].pc # "idle" /\ cred = NoCredential
                /\ calls'[c].outcome # AuthorizationError)
             => /\ calls'[c].pc = "awaitGuest"
                /\ guestRequests' = guestRequests + 1]_vars

\* one acquisition failed, cred is still unset, and the next invocation is
\* acquiring again
C20_Witness ==
    /\ cred = NoCredential
    /\ guestRequests = 2
    /\ \E c \in Callers :
          /\ calls[c].outcome = Threw("GuestCredentialError")
          /\ calls[c].transportCalls = 0
    /\ \E c \in Callers : calls[c].pc = "awaitGuest"


(***************************************************************************)
(* TweetService.search and TweetService.list: the sort by creation time    *)
(***************************************************************************)
\* most entities in a fetched list
MaxTweets == 3

\* createdAt of a Tweet is a string taken from the response; two spellings
\* of the same instant, an earlier instant, and a string that is no date
CreatedAtValues ==
    {Str("Sun Jan 01 00:00:00 +0000 2023"),
     Str("Mon Jan 02 00:00:00 +0000 2023"),
     Str("2023-01-02T00:00:00.000Z"),
     Str("")}

\* new Date(createdAt).valueOf(), in days since Dec 31 2022; NaN for a
\* string that is no date
DateValueOf(createdAt) ==
    CASE createdAt = Str("Sun Jan 01 00:00:00 +0000 2023") -> 1
      [] createdAt = Str("Mon Jan 02 00:00:00 +0000 2023") -> 2
      [] createdAt = Str("2023-01-02T00:00:00.000Z") -> 2
      [] OTHER -> NaN

\* the Tweet entities of a fetched list
DatedTweets ==
    [entity : {"Tweet"}, id : {Str("t1"), Str("t2")}, createdAt : CreatedAtValues]

NextValues == {Str(""), Str("abc|")}

\* (a, b) => new Date(b.createdAt).valueOf() - new Date(a.createdAt).valueOf()
\* a difference with a NaN operand is NaN
compareFn(a, b) ==
    LET x == DateValueOf(b.createdAt)
        y == DateValueOf(a.createdAt)
    IN  IF x = NaN \/ y = NaN THEN [nan |-> TRUE, v |-> 0]
        ELSE [nan |-> FALSE, v |-> x - y]

\* Array.prototype.sort reads a NaN result of the comparator as +0
SortCompare(a, b) ==
    LET r == compareFn(a, b) IN IF r.nan THEN 0 ELSE r.v

Sign(n) == IF n < 0 THEN -1 ELSE IF n > 0 THEN 1 ELSE 0

\* ECMAScript: the comparator is a consistent comparator for the elements
IsConsistentComparator(list) ==
    LET E == {list[i] : i \in 1..Len(list)}
    IN  /\ \A a \in E : SortCompare(a, a) = 0
        /\ \A a, b \in E : Sign(SortCompare(a, b)) = -Sign(SortCompare(b, a))
        /\ \A a, b, c \in E :
              /\ (SortCompare(a, b) = 0 /\ SortCompare(b, c) = 0)
                 => SortCompare(a, c) = 0
              /\ (SortCompare(a, b) < 0 /\ SortCompare(b, c) < 0)
                 => SortCompare(a, c) < 0
              /\ (SortCompare(a, b) > 0 /\ SortCompare(b, c) > 0)
                 => SortCompare(a, c) > 0

\* x put behind the last element of a sorted list that does not sort after it
RECURSIVE InsertSorted(_, _)
InsertSorted(sorted, x) ==
    IF sorted = <<>> THEN <<x>>
    ELSE IF SortCompare(sorted[Len(sorted)], x) <= 0 THEN Append(sorted, x)
    ELSE Append(InsertSorted(SubSeq(sorted, 1, Len(sorted) - 1), x),
                sorted[Len(sorted)])

\* the stable sort of a list under a consistent comparator
RECURSIVE StableSort(_)
StableSort(list) ==
    IF list = <<>> THEN <<>>
    ELSE InsertSorted(StableSort(SubSeq(list, 1, Len(list) - 1)), list[Len(list)])

PermutationsOf(list) ==
    LET n == Len(list)
        P == {f \in [1..n -> 1..n] : \A i, j \in 1..n : f[i] = f[j] => i = j}
    IN  {[i \in 1..n |-> list[f[i]]] : f \in P}

\* Array.prototype.sort(compareFn): the stable sorted order when the
\* comparator is consistent for the elements; otherwise the order is
\* implementation-defined (ECMAScript 23.1.3.30), some permutation
SortOutcomes(list) ==
    IF IsConsistentComparator(list) THEN {StableSort(list)}
    ELSE PermutationsOf(list)

InitSort ==
    /\ filterCall = [st |-> "none"]
    /\ extractCall = [st |-> "none"]
    /\ NoClient
    /\ instance = NoInstance
    /\ logObjects = <<>>
    /\ logCalls = [c \in Callers |-> IdleLogCall]
    /\ \E type \in {"TWEET_SEARCH", "LIST_TWEETS"},
          list \in SeqsUpTo(DatedTweets, MaxTweets), next \in NextValues :
          sortCall = [st |-> "fetched", type |-> type,
                      fetched |-> CursoredData(list, next)]

\* data.list.sort(...); return data
SortAndReturn(type) ==
    /\ sortCall.st = "fetched"
    /\ sortCall.type = type
    /\ \E sorted \in SortOutcomes(sortCall.fetched.list) :
          sortCall' = [st |-> "returned", type |-> type,
                       fetched |-> sortCall.fetched,
                       data |-> CursoredData(sorted, sortCall.fetched.next)]
    /\ UNCHANGED <<pureVars, clientVars, instance, logObjects, logCalls>>

\* TweetService.search, after its fetch of TWEET_SEARCH returned
Search == SortAndReturn("TWEET_SEARCH")

\* TweetService.list, after its fetch of LIST_TWEETS returned
List == SortAndReturn("LIST_TWEETS")

NextSort == Search \/ List

SpecSort == InitSort /\ [][NextSort]_vars

Occurrences(list, e) == Cardinality({i \in 1..Len(list) : list[i] = e})

SameMultiset(l1, l2) ==
    /\ Len(l1) = Len(l2)
    /\ \A i \in 1..Len(l1) : Occurrences(l1, l1[i]) = Occurrences(l2, l1[i])

\* no entity with a creation time comes before one with a later creation time
MostRecentFirst(list) ==
    \A i, j \in 1..Len(list) :
        (/\ i < j
         /\ DateValueOf(list[i].createdAt) # NaN
         /\ DateValueOf(list[j].createdAt) # NaN)
        => DateValueOf(list[i].createdAt) >= DateValueOf(list[j].createdAt)

AllDatesParse(list) ==
    \A i \in 1..Len(list) : DateValueOf(list[i].createdAt) # NaN

\* C21: search and list return the entities fetch produced (as a multiset)
\* and the next cursor fetch produced, reordered so that creation times are
\* non-increasing from the first to the last element.
C21_SortedMostRecentFirst ==
    sortCall.st = "returned"
    => /\ SameMultiset(sortCall.data.list, sortCall.fetched.list)
       /\ sortCall.data.next = sortCall.fetched.next
       /\ MostRecentFirst(sortCall.data.list)

\* what holds of the sort: the multiset and the cursor always, the order
\* when every createdAt of the list parses to a date
SortedWhenAllDatesParse ==
    sortCall.st = "returned"
    => /\ SameMultiset(sortCall.data.list, sortCall.fetched.list)
       /\ sortCall.data.next = sortCall.fetched.next
       /\ AllDatesParse(sortCall.fetched.list) => MostRecentFirst(sortCall.data.list)


(***************************************************************************)
(* LogService.getInstance                                                  *)
(***************************************************************************)
\* most getInstance invocations of one caller
MaxGetInstance == 2

\* a getInstance promise resolved with the object at index i of logObjects,
\* whose init was in the given state at that moment
Resolved(i, init) == [st |-> "returned", value |-> i, init |-> init]

InitLog ==
    /\ filterCall = [st |-> "none"]
    /\ extractCall = [st |-> "none"]
    /\ NoClient
    /\ NoService

\* getInstance up to its first await, or up to its return when the static
\* field is set already: the test of this.instance, the construction and
\* the assignment run without interruption
GetInstance(c) ==
    /\ logCalls[c].pc # "awaitInit"
    /\ logCalls[c].n < MaxGetInstance
    /\ IF instance = NoInstance
       THEN /\ logObjects' = Append(logObjects, [init |-> "pending"])
            /\ instance' = Len(logObjects) + 1
            /\ logCalls' = [logCalls EXCEPT ![c] =
                  [pc |-> "awaitInit", n |-> @.n + 1, obj |-> Len(logObjects) + 1,
                   outcome |-> Pending, logged |-> Pending]]
       ELSE /\ logCalls' = [logCalls EXCEPT ![c] =
                  [pc |-> "done", n |-> @.n + 1, obj |-> instance,
                   outcome |-> Resolved(instance, logObjects[instance].init),
                   logged |-> Pending]]
            /\ UNCHANGED <<instance, logObjects>>
    /\ UNCHANGED <<pureVars, clientVars, sortCall>>

\* mongoose.connect resolved: init returns and getInstance returns
\* this.instance
InitCompletes(c) ==
    /\ logCalls[c].pc = "awaitInit"
    /\ logObjects' = [logObjects EXCEPT ![logCalls[c].obj].init = "done"]
    /\ logCalls' = [logCalls EXCEPT ![c].pc = "done",
                                    ![c].outcome = Resolved(instance, "done")]
    /\ UNCHANGED <<pureVars, clientVars, sortCall, instance>>

\* mongoose.connect rejected: the error leaves init and getInstance; the
\* static field keeps the object
InitFails(c) ==
    /\ logCalls[c].pc = "awaitInit"
    /\ logObjects' = [logObjects EXCEPT ![logCalls[c].obj].init = "failed"]
    /\ logCalls' = [logCalls EXCEPT ![c].pc = "done",
                                    ![c].outcome = Threw("ConnectError")]
    /\ UNCHANGED <<pureVars, clientVars, sortCall, instance>>

\* log(data) on the instance a getInstance call resolved with: true once
\* the document is saved, the error of save otherwise
Log(c, saved) ==
    /\ logCalls[c].pc = "done"
    /\ logCalls[c].outcome.st = "returned"
    /\ logCalls[c].logged = Pending
    /\ logCalls' = [logCalls EXCEPT ![c].logged =
          IF saved THEN [st |-> "returned", value |-> Bool(TRUE)]
          ELSE Threw("SaveError")]
    /\ UNCHANGED <<pureVars, clientVars, sortCall, instance, logObjects>>

NextLog ==
    \E c \in Callers :
        \/ GetInstance(c)
        \/ InitCompletes(c)
        \/ InitFails(c)
        \/ \E saved \in BOOLEAN : Log(c, saved)

SpecLog == InitLog /\ [][NextLog]_vars

\* C22: getInstance is a singleton accessor whose result is ready to use:
\* at most one LogService object is ever constructed, and every call that
\* resolves resolves with that instance and only after its init has
\* completed successfully.
C22_SingletonReadyToUse ==
    /\ Len(logObjects) <= 1
    /\ \A c \in Callers :
          logCalls[c].outcome.st = "returned"
          => /\ logCalls[c].outcome.value = instance
             /\ logCalls[c].outcome.init = "done"

\* the part of C22 that holds: one object at most, and every resolved call
\* holds the static field's object
AtMostOneLogService ==
    /\ Len(logObjects) <= 1
    /\ \A c \in Callers :
          logCalls[c].outcome.st = "returned" => logCalls[c].outcome.value = instance

=============================================================================
